---------------------------- MODULE Spec2Model ----------------------------
(***************************************************************************)
(* A model of tweet_parser.tweet.Tweet: a dict subclass that classifies a  *)
(* payload once at construction and exposes lazily computed, memoized      *)
(* accessors, three of which construct nested Tweet objects.               *)
(*                                                                         *)
(* Representation.                                                         *)
(*   - a Python dict is a TLA+ function whose DOMAIN is the dict's key set;*)
(*   - a Python str that the code indexes or splits (the ids) is a         *)
(*     sequence of one-character strings; other strs are TLA+ strings;     *)
(*   - a Python int too wide for TLC's 32-bit integers (a snowflake id)    *)
(*     is the sequence of its decimal digits, most significant first;      *)
(*   - None is the empty sequence <<>> and a reference to the Tweet object *)
(*     number o is <<o>>;                                                  *)
(*   - a call's outcome is a record: [kind |-> "ok", val] or               *)
(*     [kind |-> "raise", exc, msg], together with the heap it leaves.     *)
(***************************************************************************)
EXTENDS Integers, Sequences, FiniteSets, TLC

VARIABLES input, objs, dead, ret, nops

vars == <<input, objs, dead, ret, nops>>

(***************************************************************************)
(* Bounds of the model.                                                    *)
(***************************************************************************)
\* Accessor reads and dict operations performed after the construction.
MaxOps == 3

(***************************************************************************)
(* Strings as character sequences.                                         *)
(***************************************************************************)
DigitChars == <<"0", "1", "2", "3", "4", "5", "6", "7", "8", "9">>

Str1 == <<"8","6","7","4","7","4","6","1","3","1","3","9","1","5","6","9","9","3">>
Str2 == <<"1","4","3","8","6","4","6","2","7","1">>
Str3 == <<"1","4","3","8","6","4","6","2","7","2">>

\* "tag:search.twitter.com,2005:" shortened to its colon structure
TagPrefix == <<"t","a","g",":","2","0","0","5",":">>

None == <<>>

\* str.split(":")[-1]: what follows the last ":" (all of s when it has none)
RECURSIVE LastSegmentFrom(_, _)
LastSegmentFrom(s, i) ==
    IF i = 0 THEN s
    ELSE IF s[i] = ":" THEN SubSeq(s, i + 1, Len(s))
    ELSE LastSegmentFrom(s, i - 1)

LastSegment(s) == LastSegmentFrom(s, Len(s))

(***************************************************************************)
(* Decimal arithmetic on digit sequences (Python's unbounded int).         *)
(***************************************************************************)
IsDigits(s) == Len(s) > 0 /\ \A i \in 1..Len(s) : \E d \in 1..10 : DigitChars[d] = s[i]

DigitVal(c) == (CHOOSE d \in 1..10 : DigitChars[d] = c) - 1

\* int(s) for a string of decimal digits
ParseInt(s) == [i \in 1..Len(s) |-> DigitVal(s[i])]

RECURSIVE StripZeros(_)
StripZeros(ds) ==
    IF Len(ds) > 1 /\ ds[1] = 0 THEN StripZeros(Tail(ds)) ELSE ds

\* floor(ds / m) by long division, for 0 < m and 10 * m within the integers
RECURSIVE DivSmallFrom(_, _, _, _, _)
DivSmallFrom(ds, m, i, rem, acc) ==
    IF i > Len(ds) THEN StripZeros(acc)
    ELSE LET cur == rem * 10 + ds[i]
         IN  DivSmallFrom(ds, m, i + 1, cur % m, Append(acc, cur \div m))

DivSmall(ds, m) == DivSmallFrom(ds, m, 1, 0, <<>>)

TwoPow22 == 4194304

\* n >> 22
ShiftRight22(ds) == DivSmall(ds, TwoPow22)

PadTo(ds, n) == [i \in 1..n |-> IF i <= n - Len(ds) THEN 0 ELSE ds[i - (n - Len(ds))]]

RECURSIVE AddFrom(_, _, _, _, _)
AddFrom(a, b, i, carry, acc) ==
    IF i = 0 THEN StripZeros(<<carry>> \o acc)
    ELSE LET s == a[i] + b[i] + carry
         IN  AddFrom(a, b, i - 1, s \div 10, <<s % 10>> \o acc)

\* a + b
AddDigits(a, b) ==
    LET n == IF Len(a) > Len(b) THEN Len(a) ELSE Len(b)
    IN  AddFrom(PadTo(a, n), PadTo(b, n), n, 0, <<>>)

\* int(x / 1000.0) for x >= 0: the last three digits dropped
DivThousand(ds) ==
    IF Len(ds) <= 3 THEN <<0>> ELSE SubSeq(ds, 1, Len(ds) - 3)

RECURSIVE ToIntFrom(_, _, _)
ToIntFrom(ds, i, acc) ==
    IF i > Len(ds) THEN acc ELSE ToIntFrom(ds, i + 1, acc * 10 + ds[i])

\* the value of a digit sequence below 2^31
ToInt(ds) == ToIntFrom(ds, 1, 0)

\* 1288834974657, the snowflake epoch in ms since the Unix epoch
SnowflakeEpoch == <<1,2,8,8,8,3,4,9,7,4,6,5,7>>

\* tweet_date.snowflake2utc: int(((int(sf) >> 22) + 1288834974657) / 1000.0)
snowflake2utc(sf) ==
    ToInt(DivThousand(AddDigits(ShiftRight22(ParseInt(sf)), SnowflakeEpoch)))

(***************************************************************************)
(* datetime.datetime.utcfromtimestamp and strftime.                        *)
(***************************************************************************)
SecondsPerDay == 86400

\* the proleptic Gregorian date of day number z (days since 1970-01-01)
CivilFromDays(z0) ==
    LET z   == z0 + 719468
        era == z \div 146097
        doe == z - era * 146097
        yoe == (doe - doe \div 1460 + doe \div 36524 - doe \div 146096) \div 365
        doy == doe - (365 * yoe + yoe \div 4 - yoe \div 100)
        mp  == (5 * doy + 2) \div 153
        d   == doy - (153 * mp + 2) \div 5 + 1
        m   == IF mp < 10 THEN mp + 3 ELSE mp - 9
        y   == yoe + era * 400 + (IF m <= 2 THEN 1 ELSE 0)
    IN  [year |-> y, month |-> m, day |-> d]

utcfromtimestamp(secs) ==
    LET date == CivilFromDays(secs \div SecondsPerDay)
        rem  == secs % SecondsPerDay
    IN  [year |-> date.year, month |-> date.month, day |-> date.day,
         hour |-> rem \div 3600, minute |-> (rem % 3600) \div 60,
         second |-> rem % 60]

Pad2(n) == <<DigitChars[((n \div 10) % 10) + 1], DigitChars[(n % 10) + 1]>>

Pad4(n) == Pad2(n \div 100) \o Pad2(n % 100)

\* strftime directives
FmtY(dt) == Pad4(dt.year)
Fmtm(dt) == Pad2(dt.month)
FmtM(dt) == Pad2(dt.minute)
Fmtd(dt) == Pad2(dt.day)
FmtH(dt) == Pad2(dt.hour)
FmtS(dt) == Pad2(dt.second)

Millis == <<".", "0", "0", "0", "Z">>

\* dt.strftime("%Y-%M-%dT%H:%M:%S.000Z")
strftime(dt) ==
    FmtY(dt) \o <<"-">> \o FmtM(dt) \o <<"-">> \o Fmtd(dt) \o <<"T">>
        \o FmtH(dt) \o <<":">> \o FmtM(dt) \o <<":">> \o FmtS(dt) \o Millis

(***************************************************************************)
(* Payloads: the dicts a Tweet may be constructed from.                    *)
(***************************************************************************)
CreatedAt == "Wed May 24 20:17:19 +0000 2017"
PostedTime == "2017-05-24T20:17:19.000Z"

EmptyDict == <<>>

\* original format: "id" is the int whose decimal digits "id_str" spells
Orig(i, t) == [id |-> i, id_str |-> i, created_at |-> CreatedAt, text |-> t]

OrigLong(i) ==
    [id |-> i, id_str |-> i, created_at |-> CreatedAt, text |-> "hello w...",
     truncated |-> TRUE, extended_tweet |-> [full_text |-> "hello world"]]

OrigPoll(i) ==
    [id |-> i, id_str |-> i, created_at |-> CreatedAt, text |-> "which?",
     entities |-> [polls |-> <<[options |-> <<[text |-> "yes"], [text |-> "no"]>>]>>]]

\* activity-streams format
AS(c, t) == [id |-> c, postedTime |-> PostedTime, body |-> t, verb |-> "post"]

ASLong(c) ==
    [id |-> c, postedTime |-> PostedTime, body |-> "hello w...", verb |-> "post",
     long_object |-> [body |-> "hello world"]]

\* dicts that are no Tweet payload
NoKeys == [text |-> "hello"]
NoTimestamp == [id |-> Str2, text |-> "hello"]

Ids == {Str1, Str2, Str3}
CompositeIds == {TagPrefix \o Str1, Str2, TagPrefix \o Str3}
Texts == {"", "hello"}

OrigLeaves == {Orig(i, t) : i \in Ids, t \in Texts} \cup {OrigLong(Str1), OrigPoll(Str1)}
ASLeaves == {AS(c, t) : c \in CompositeIds, t \in Texts} \cup {ASLong(TagPrefix \o Str1)}
Malformed == {NoKeys, NoTimestamp}

\* payloads found nested in another one
Inner == {Orig(Str2, "inner"), AS(TagPrefix \o Str3, "inner"), NoKeys}
Inner2 == {Orig(Str2, "middle") @@ [quoted_status |-> NoTimestamp]}

OrigBases == {Orig(Str1, t) : t \in Texts}
ASBases == {AS(TagPrefix \o Str1, "hello")}

OrigQuotes == {b @@ [quoted_status |-> n] : b \in OrigBases, n \in Inner \cup Inner2}
OrigRetweets == {b @@ [retweeted_status |-> n] : b \in OrigBases, n \in Inner}
OrigBoth ==
    {b @@ [quoted_status |-> Orig(Str3, "quoted"), retweeted_status |-> n] :
        b \in OrigBases, n \in Inner}
ASQuotes == {b @@ [twitter_quoted_status |-> n] : b \in ASBases, n \in Inner}
ASRetweets == {[b EXCEPT !.verb = "share"] @@ [object |-> n] : b \in ASBases, n \in Inner}

Payloads ==
    OrigLeaves \cup ASLeaves \cup Malformed \cup OrigQuotes \cup OrigRetweets
        \cup OrigBoth \cup ASQuotes \cup ASRetweets

(***************************************************************************)
(* Outcomes of a call, and the heap it runs on.                            *)
(***************************************************************************)
Heap == [objs |-> objs, dead |-> dead]

Ok(h, v) == [heap |-> h, kind |-> "ok", val |-> v]
Raise(h, e, m) == [heap |-> h, kind |-> "raise", exc |-> e, msg |-> m]

Ref(o) == <<o>>

AccessorNames ==
    {"id", "created_at_seconds", "created_at_datetime", "created_at_string",
     "tweet_type", "user_entered_text", "poll_options",
     "quote_tweet", "retweet", "embedded_tweet"}

(***************************************************************************)
(* tweet_checking.check_tweet: the format classifier.  Returns whether the *)
(* payload is in the original format, or raises NotATweetError.  Only the  *)
(* default do_format_validation=False is modelled.                         *)
(***************************************************************************)
ClassifierMsg == <<"Tweet has neither the original nor the activity-streams keys">>

check_tweet(h, p) ==
    IF {"id_str", "created_at"} \subseteq DOMAIN p THEN Ok(h, TRUE)
    ELSE IF {"id", "postedTime"} \subseteq DOMAIN p THEN Ok(h, FALSE)
    ELSE Raise(h, "NotATweetError", ClassifierMsg)

(***************************************************************************)
(* Tweet.__init__                                                          *)
(*   objs: the Tweet instances whose construction returned;                *)
(*   dead: the instances whose __init__ raised, as it left them.           *)
(* checks counts the classifier's calls for the instance, and runs[a] the  *)
(* executions of accessor a's body.                                        *)
(***************************************************************************)
Blank == [raw |-> EmptyDict, classified |-> FALSE, checks |-> 0]

NewTweet(p, fmt) ==
    [raw |-> p, original_format |-> fmt, checks |-> 1, lazy |-> <<>>,
     runs |-> [a \in AccessorNames |-> 0]]

\* faulty variant: self.update(tweet_dict) ahead of the classification
Tweet_update_first(h, p) ==
    LET c == check_tweet(h, p)
    IN  IF c.kind = "raise"
        THEN [c EXCEPT !.heap.dead = @ \cup {[Blank EXCEPT !.raw = p, !.checks = 1]}]
        ELSE Ok([h EXCEPT !.objs = Append(@, NewTweet(p, c.val))], Len(h.objs) + 1)

Tweet(h, p) ==
    LET c == check_tweet(h, p)
    IN  IF c.kind = "raise"
        THEN [c EXCEPT !.heap.dead = @ \cup {[Blank EXCEPT !.checks = 1]}]
        ELSE Ok([h EXCEPT !.objs = Append(@, NewTweet(p, c.val))], Len(h.objs) + 1)

(***************************************************************************)
(* lazy_property: compute on the first read, store, return the stored      *)
(* value afterwards.  d is the outcome of the accessor's body on h.        *)
(***************************************************************************)
lazy_property(h, o, name, d) ==
    IF name \in DOMAIN h.objs[o].lazy
    THEN Ok(h, h.objs[o].lazy[name])
    ELSE LET ran == [d.heap EXCEPT !.objs[o].runs[name] = @ + 1]
         IN  IF d.kind = "ok"
             THEN Ok([ran EXCEPT !.objs[o].lazy = @ @@ (name :> d.val)], d.val)
             ELSE [d EXCEPT !.heap = ran]

(***************************************************************************)
(* The getter modules tweet.py imports (tweet_text, tweet_embeds).         *)
(***************************************************************************)
\* tweet_text.get_tweet_type: repost marker, else quote marker, else plain
get_tweet_type(t) ==
    IF t.original_format
    THEN IF "retweeted_status" \in DOMAIN t.raw THEN "retweet"
         ELSE IF "quoted_status" \in DOMAIN t.raw THEN "quote"
         ELSE "tweet"
    ELSE IF t.raw["verb"] = "share" THEN "retweet"
         ELSE IF "twitter_quoted_status" \in DOMAIN t.raw THEN "quote"
         ELSE "tweet"

\* tweet_text.get_full_text: the extended text when there is one
get_full_text(t) ==
    IF t.original_format
    THEN IF "extended_tweet" \in DOMAIN t.raw
         THEN t.raw["extended_tweet"]["full_text"]
         ELSE t.raw["text"]
    ELSE IF "long_object" \in DOMAIN t.raw
         THEN t.raw["long_object"]["body"]
         ELSE t.raw["body"]

OptionTexts(poll) == [i \in 1..Len(poll.options) |-> poll.options[i].text]

\* tweet_text.get_poll_options
get_poll_options(h, t) ==
    IF ~t.original_format
    THEN Raise(h, "NotAvailableError",
               <<"Gnip activity-streams format does not return poll options">>)
    ELSE IF "entities" \in DOMAIN t.raw /\ "polls" \in DOMAIN t.raw["entities"]
         THEN Ok(h, OptionTexts(t.raw["entities"]["polls"][1]))
         ELSE Ok(h, <<>>)

\* tweet_embeds.get_quote_tweet: the nested quoted payload, or None
get_quote_tweet(t) ==
    LET key == IF t.original_format THEN "quoted_status" ELSE "twitter_quoted_status"
    IN  IF key \in DOMAIN t.raw THEN <<t.raw[key]>> ELSE None

\* tweet_embeds.get_retweet: the nested reposted payload, or None
get_retweet(t) ==
    IF t.original_format
    THEN IF "retweeted_status" \in DOMAIN t.raw THEN <<t.raw["retweeted_status"]>> ELSE None
    ELSE IF t.raw["verb"] = "share" /\ "object" \in DOMAIN t.raw
         THEN <<t.raw["object"]>> ELSE None

\* tweet_embeds.get_embedded_tweet: whichever of the two is present
get_embedded_tweet(t) ==
    IF get_retweet(t) # None THEN get_retweet(t) ELSE get_quote_tweet(t)

(***************************************************************************)
(* The accessors of Tweet.  X_fn is the body of the method X and X is the  *)
(* method as decorated with @lazy_property.                                *)
(***************************************************************************)
\* faulty variant: split(":")[0] in place of split(":")[-1]
id_fn_first_segment(h, o) ==
    LET t == h.objs[o]
        s == t.raw["id"]
        colons == {i \in 1..Len(s) : s[i] = ":"}
        first == IF colons = {} THEN Len(s) + 1
                 ELSE CHOOSE i \in colons : \A j \in colons : i <= j
    IN  IF t.original_format THEN Ok(h, t.raw["id_str"])
        ELSE Ok(h, SubSeq(s, 1, first - 1))

id_fn(h, o) ==
    LET t == h.objs[o]
        key == IF t.original_format THEN "id_str" ELSE "id"
    IN  IF key \notin DOMAIN t.raw THEN Raise(h, "KeyError", <<key>>)
        ELSE IF t.original_format THEN Ok(h, t.raw["id_str"])
        ELSE Ok(h, LastSegment(t.raw["id"]))

id(h, o) == lazy_property(h, o, "id", id_fn(h, o))

\* the instant the payloads' timestamp fields spell
TimestampSeconds(s) == IF s \in {CreatedAt, PostedTime} THEN 1495657039 ELSE 0

\* faulty variant: the seconds parsed from the payload's timestamp field
created_at_seconds_fn_timestamp(h, o) ==
    LET t == h.objs[o]
    IN  Ok(h, TimestampSeconds(IF t.original_format THEN t.raw["created_at"]
                               ELSE t.raw["postedTime"]))

created_at_seconds_fn(h, o) ==
    LET r == id(h, o)
    IN  IF r.kind = "raise" THEN r
        ELSE IF ~IsDigits(r.val) THEN Raise(r.heap, "ValueError", <<"invalid literal for int()">>)
        ELSE Ok(r.heap, snowflake2utc(r.val))

created_at_seconds(h, o) ==
    lazy_property(h, o, "created_at_seconds", created_at_seconds_fn(h, o))

created_at_datetime_fn(h, o) ==
    LET r == created_at_seconds(h, o)
    IN  IF r.kind = "raise" THEN r ELSE Ok(r.heap, utcfromtimestamp(r.val))

created_at_datetime(h, o) ==
    lazy_property(h, o, "created_at_datetime", created_at_datetime_fn(h, o))

created_at_string_fn(h, o) ==
    LET r == created_at_datetime(h, o)
    IN  IF r.kind = "raise" THEN r ELSE Ok(r.heap, strftime(r.val))

created_at_string(h, o) ==
    lazy_property(h, o, "created_at_string", created_at_string_fn(h, o))

tweet_type_fn(h, o) == Ok(h, get_tweet_type(h.objs[o]))

tweet_type(h, o) == lazy_property(h, o, "tweet_type", tweet_type_fn(h, o))

\* faulty variant: the empty string for every type but "tweet"
user_entered_text_fn_not_tweet(h, o) ==
    LET r == tweet_type(h, o)
    IN  IF r.kind = "raise" THEN r
        ELSE IF r.val # "tweet" THEN Ok(r.heap, "")
        ELSE Ok(r.heap, get_full_text(r.heap.objs[o]))

user_entered_text_fn(h, o) ==
    LET r == tweet_type(h, o)
    IN  IF r.kind = "raise" THEN r
        ELSE IF r.val = "retweet" THEN Ok(r.heap, "")
        ELSE Ok(r.heap, get_full_text(r.heap.objs[o]))

user_entered_text(h, o) ==
    lazy_property(h, o, "user_entered_text", user_entered_text_fn(h, o))

\* faulty variant: an empty list where the getter raises
poll_options_fn_default(h, o) ==
    LET r == get_poll_options(h, h.objs[o])
    IN  IF r.kind = "raise" THEN Ok(h, <<>>) ELSE r

poll_options_fn(h, o) == get_poll_options(h, h.objs[o])

poll_options(h, o) == lazy_property(h, o, "poll_options", poll_options_fn(h, o))

\* str(d) for the dicts that reach a message
Repr(d) ==
    CASE d = NoKeys -> "{'text': 'hello'}"
      [] d = NoTimestamp -> "{'id': 1438646271, 'text': 'hello'}"
      [] OTHER -> "{...}"

\* "The quote-tweet payload appears malformed. Failed with '{}'".format(nate)
QuoteMsg(nate) ==
    <<"The quote-tweet payload appears malformed. Failed with '">> \o nate \o <<"'">>

\* "The retweet payload appears malformed. Failed with '{}'".format(nate)
RetweetMsg(nate) ==
    <<"The retweet payload appears malformed. Failed with '">> \o nate \o <<"'">>

\* "The embedded tweet payload {} appears malformed. \nFailed with '{}'"
\*     .format(embedded_tweet, nate)
EmbeddedMsg(d, nate) ==
    <<"The embedded tweet payload ", Repr(d), " appears malformed. \nFailed with '">>
        \o nate \o <<"'">>

\* faulty variant: no try/except around the nested construction
quote_tweet_fn_unwrapped(h, o) ==
    LET x == get_quote_tweet(h.objs[o])
    IN  IF x = None THEN Ok(h, None)
        ELSE LET c == Tweet(h, x[1])
             IN  IF c.kind = "ok" THEN Ok(c.heap, Ref(c.val)) ELSE c

quote_tweet_fn(h, o) ==
    LET x == get_quote_tweet(h.objs[o])
    IN  IF x = None THEN Ok(h, None)
        ELSE LET c == Tweet(h, x[1])
             IN  IF c.kind = "ok" THEN Ok(c.heap, Ref(c.val))
                 ELSE IF c.exc = "NotATweetError"
                 THEN Raise(c.heap, "NotATweetError", QuoteMsg(c.msg))
                 ELSE c

\* faulty variant: the method without its @lazy_property decorator
quote_tweet_undecorated(h, o) == quote_tweet_fn(h, o)

quote_tweet(h, o) == lazy_property(h, o, "quote_tweet", quote_tweet_fn(h, o))

\* faulty variant: Tweet(retweet) without the "is not None" guard
retweet_fn_unguarded(h, o) ==
    LET x == get_retweet(h.objs[o])
    IN  IF x = None
        THEN Raise(h, "TypeError", <<"argument of type 'NoneType' is not iterable">>)
        ELSE LET c == Tweet(h, x[1])
             IN  IF c.kind = "ok" THEN Ok(c.heap, Ref(c.val))
                 ELSE Raise(c.heap, "NotATweetError", RetweetMsg(c.msg))

retweet_fn(h, o) ==
    LET x == get_retweet(h.objs[o])
    IN  IF x = None THEN Ok(h, None)
        ELSE LET c == Tweet(h, x[1])
             IN  IF c.kind = "ok" THEN Ok(c.heap, Ref(c.val))
                 ELSE IF c.exc = "NotATweetError"
                 THEN Raise(c.heap, "NotATweetError", RetweetMsg(c.msg))
                 ELSE c

retweet(h, o) == lazy_property(h, o, "retweet", retweet_fn(h, o))

embedded_tweet_fn(h, o) ==
    LET x == get_embedded_tweet(h.objs[o])
    IN  IF x = None THEN Ok(h, None)
        ELSE LET c == Tweet(h, x[1])
             IN  IF c.kind = "ok" THEN Ok(c.heap, Ref(c.val))
                 ELSE IF c.exc = "NotATweetError"
                 THEN Raise(c.heap, "NotATweetError", EmbeddedMsg(x[1], c.msg))
                 ELSE c

embedded_tweet(h, o) ==
    lazy_property(h, o, "embedded_tweet", embedded_tweet_fn(h, o))

(***************************************************************************)
(* The state machine: one Tweet is constructed from the input, then its    *)
(* accessors, and those of the Tweets they return, are read in any order.  *)
(***************************************************************************)
NoRet == [op |-> "none"]

Init ==
    /\ input \in Payloads
    /\ objs = <<>>
    /\ dead = {}
    /\ ret = NoRet
    /\ nops = 0

Outcome(r) ==
    IF r.kind = "ok" THEN [kind |-> "ok", val |-> r.val]
    ELSE [kind |-> "raise", exc |-> r.exc, msg |-> r.msg]

\* tweet = Tweet(input)
New ==
    /\ ret = NoRet
    /\ LET r == Tweet(Heap, input)
       IN  /\ objs' = r.heap.objs
           /\ dead' = r.heap.dead
           /\ ret' = [op |-> "Tweet", obj |-> 0] @@ Outcome(r)
    /\ UNCHANGED <<input, nops>>

Return(name, o, r) ==
    /\ nops < MaxOps
    /\ objs' = r.heap.objs
    /\ dead' = r.heap.dead
    /\ ret' = [op |-> name, obj |-> o] @@ Outcome(r)
    /\ nops' = nops + 1
    /\ UNCHANGED input

Read_id == \E o \in DOMAIN objs : Return("id", o, id(Heap, o))

Read_created_at_seconds ==
    \E o \in DOMAIN objs : Return("created_at_seconds", o, created_at_seconds(Heap, o))

Read_created_at_datetime ==
    \E o \in DOMAIN objs : Return("created_at_datetime", o, created_at_datetime(Heap, o))

Read_created_at_string ==
    \E o \in DOMAIN objs : Return("created_at_string", o, created_at_string(Heap, o))

Read_tweet_type == \E o \in DOMAIN objs : Return("tweet_type", o, tweet_type(Heap, o))

Read_user_entered_text ==
    \E o \in DOMAIN objs : Return("user_entered_text", o, user_entered_text(Heap, o))

Read_poll_options ==
    \E o \in DOMAIN objs : Return("poll_options", o, poll_options(Heap, o))

Read_quote_tweet == \E o \in DOMAIN objs : Return("quote_tweet", o, quote_tweet(Heap, o))

Read_retweet == \E o \in DOMAIN objs : Return("retweet", o, retweet(Heap, o))

Read_embedded_tweet ==
    \E o \in DOMAIN objs : Return("embedded_tweet", o, embedded_tweet(Heap, o))

Next ==
    \/ New
    \/ Read_id
    \/ Read_created_at_seconds
    \/ Read_created_at_datetime
    \/ Read_created_at_string
    \/ Read_tweet_type
    \/ Read_user_entered_text
    \/ Read_poll_options
    \/ Read_quote_tweet
    \/ Read_retweet
    \/ Read_embedded_tweet

Spec == Init /\ [][Next]_vars

(***************************************************************************)
(* Tweet is a dict: the mapping operations it inherits act on the payload  *)
(* the instance holds.  SpecDict adds them to the reads.                   *)
(***************************************************************************)
Assignments ==
    {<<"id_str", Str3>>, <<"id", TagPrefix \o Str2>>, <<"text", "edited">>,
     <<"body", "edited">>, <<"retweeted_status", Orig(Str2, "inner")>>}

Deletable == {"id_str", "quoted_status", "twitter_quoted_status", "extended_tweet"}

\* dict.__setitem__
setitem(t, k, v) ==
    [t EXCEPT !.raw = [x \in DOMAIN t.raw \cup {k} |-> IF x = k THEN v ELSE t.raw[x]]]

\* dict.__delitem__
delitem(t, k) ==
    [t EXCEPT !.raw = [x \in DOMAIN t.raw \ {k} |-> t.raw[x]]]

\* tweet[k] = v
SetItem ==
    \E o \in DOMAIN objs, a \in Assignments :
        Return("__setitem__", o,
               Ok([Heap EXCEPT !.objs[o] = setitem(@, a[1], a[2])], None))

\* del tweet[k]
DelItem ==
    \E o \in DOMAIN objs, k \in Deletable :
        /\ k \in DOMAIN objs[o].raw
        /\ Return("__delitem__", o, Ok([Heap EXCEPT !.objs[o] = delitem(@, k)], None))

NextDict == Next \/ SetItem \/ DelItem

SpecDict == Init /\ [][NextDict]_vars

(***************************************************************************)
(* Vocabulary of the properties.                                           *)
(***************************************************************************)
EmbedNames == {"quote_tweet", "retweet", "embedded_tweet"}

\* the state's last operation was a read of accessor a on object o
JustRead(o, a) == ret.op = a /\ ret.obj = o

Cached(o, a) == a \in DOMAIN objs[o].lazy

HasColon(s) == \E i \in 1..Len(s) : s[i] = ":"

\* v is what follows the last ":" of s, or all of s when s has no ":"
IsAfterLastColon(v, s) ==
    /\ Len(v) <= Len(s)
    /\ v = SubSeq(s, Len(s) - Len(v) + 1, Len(s))
    /\ ~HasColon(v)
    /\ IF HasColon(s) THEN s[Len(s) - Len(v)] = ":" ELSE v = s

\* the canonical id of a Tweet, read off its payload
IsCanonicalId(v, t) ==
    IF t.original_format THEN v = t.raw["id_str"] ELSE IsAfterLastColon(v, t.raw["id"])

\* the embedded-content markers of a payload
HasRepostMarker(t) ==
    IF t.original_format THEN "retweeted_status" \in DOMAIN t.raw
    ELSE t.raw["verb"] = "share"

HasQuoteMarker(t) ==
    IF t.original_format THEN "quoted_status" \in DOMAIN t.raw
    ELSE "twitter_quoted_status" \in DOMAIN t.raw

(***************************************************************************)
(* C1: the id accessor never fails on a constructed Tweet; it returns the  *)
(* payload's id_str verbatim in the original format, and in the            *)
(* activity-streams format the part of the payload's id after its last     *)
(* ":" (the whole id when it has no ":").                                  *)
(***************************************************************************)
IdIsCanonical ==
    \A o \in DOMAIN objs :
        /\ Cached(o, "id") => IsCanonicalId(objs[o].lazy["id"], objs[o])
        /\ JustRead(o, "id") =>
              /\ ret.kind = "ok"
              /\ IsCanonicalId(ret.val, objs[o])

IdReadOfCompositeId ==
    \E o \in DOMAIN objs :
        /\ JustRead(o, "id")
        /\ ~objs[o].original_format
        /\ HasColon(objs[o].raw["id"])
        /\ ret.val = Str1

(***************************************************************************)
(* C2: in both formats created_at_seconds is decoded from the canonical id *)
(* alone, as ((id >> 22) + 1288834974657) / 1000 truncated, whatever the   *)
(* payload's timestamp field says; id 867474613139156993 gives 1495657039. *)
(* The expected values are those of the reference arithmetic on the ids of *)
(* the model: 342 and 343 ms after the snowflake epoch fall on either side *)
(* of a whole second.                                                      *)
(***************************************************************************)
ExpectedSeconds(i) ==
    CASE i = Str1 -> 1495657039
      [] i = Str2 -> 1288834974
      [] i = Str3 -> 1288834975

\* C2: the stored seconds are those decoded from the canonical id
SecondsFromIdAlone ==
    \A o \in DOMAIN objs :
        /\ Cached(o, "created_at_seconds") =>
              \E i \in Ids :
                  /\ IsCanonicalId(i, objs[o])
                  /\ objs[o].lazy["created_at_seconds"] = ExpectedSeconds(i)
        /\ JustRead(o, "created_at_seconds") =>
              /\ ret.kind = "ok"
              /\ ret.val = objs[o].lazy["created_at_seconds"]

SecondsReadAgainstTimestamp ==
    \E o \in DOMAIN objs :
        /\ JustRead(o, "created_at_seconds")
        /\ ~objs[o].original_format
        /\ objs[o].raw["postedTime"] = PostedTime
        /\ ret.val = 1288834975

(***************************************************************************)
(* C3: created_at_string is the UTC date and time of created_at_seconds    *)
(* written YYYY-mm-ddTHH:MM:SS.000Z, its second field being the calendar   *)
(* month.                                                                  *)
(***************************************************************************)
MonthFormat(dt) ==
    FmtY(dt) \o <<"-">> \o Fmtm(dt) \o <<"-">> \o Fmtd(dt) \o <<"T">>
        \o FmtH(dt) \o <<":">> \o FmtM(dt) \o <<":">> \o FmtS(dt) \o Millis

\* C3: the stored string has the calendar month as its second field
StringHasCalendarMonth ==
    \A o \in DOMAIN objs :
        Cached(o, "created_at_string") =>
            objs[o].lazy["created_at_string"]
                = MonthFormat(utcfromtimestamp(objs[o].lazy["created_at_seconds"]))

(***************************************************************************)
(* C4, as claimed: tweet_type is one of tweet, quote, retweet and          *)
(* user_entered_text is empty if and only if tweet_type is retweet.        *)
(***************************************************************************)
TweetTypes == {"tweet", "quote", "retweet"}

EmptyTextIffRetweet ==
    \A o \in DOMAIN objs :
        /\ Cached(o, "tweet_type") => objs[o].lazy["tweet_type"] \in TweetTypes
        /\ Cached(o, "user_entered_text") =>
              (objs[o].lazy["user_entered_text"] = ""
                  <=> objs[o].lazy["tweet_type"] = "retweet")

(***************************************************************************)
(* C4, amended: tweet_type is one of tweet, quote, retweet, decided by the *)
(* markers (repost first); a retweet has empty user_entered_text, and any  *)
(* other Tweet has the payload's extended text when it carries one and its *)
(* plain text otherwise, so its user_entered_text is empty exactly when    *)
(* that text is.                                                           *)
(***************************************************************************)
PayloadText(t) ==
    IF t.original_format
    THEN IF "extended_tweet" \in DOMAIN t.raw
         THEN t.raw["extended_tweet"]["full_text"] ELSE t.raw["text"]
    ELSE IF "long_object" \in DOMAIN t.raw
         THEN t.raw["long_object"]["body"] ELSE t.raw["body"]

\* C4 (amended): type by the markers, text empty for a retweet, the payload text otherwise
TypeAndTextByMarkers ==
    \A o \in DOMAIN objs :
        /\ Cached(o, "tweet_type") =>
              /\ objs[o].lazy["tweet_type"] \in TweetTypes
              /\ objs[o].lazy["tweet_type"] = "retweet" <=> HasRepostMarker(objs[o])
              /\ objs[o].lazy["tweet_type"] = "quote" <=>
                    (HasQuoteMarker(objs[o]) /\ ~HasRepostMarker(objs[o]))
        /\ Cached(o, "user_entered_text") =>
              /\ Cached(o, "tweet_type")
              /\ objs[o].lazy["tweet_type"] = "retweet" =>
                    objs[o].lazy["user_entered_text"] = ""
              /\ objs[o].lazy["tweet_type"] # "retweet" =>
                    objs[o].lazy["user_entered_text"] = PayloadText(objs[o])
        /\ JustRead(o, "user_entered_text") =>
              /\ ret.kind = "ok"
              /\ ret.val = objs[o].lazy["user_entered_text"]

QuoteWithEmptyText ==
    \E o \in DOMAIN objs :
        /\ JustRead(o, "user_entered_text")
        /\ objs[o].lazy["tweet_type"] = "quote"
        /\ ret.val = ""

(***************************************************************************)
(* C5: when the payload nested under the marker fails classification, the  *)
(* read of quote_tweet, retweet or embedded_tweet raises a new             *)
(* NotATweetError: its message is not the classifier's, it opens with the  *)
(* text naming the embedding and it contains the classifier's message.     *)
(* No other error leaves these accessors.                                  *)
(***************************************************************************)
Located(t, a) ==
    CASE a = "quote_tweet" -> get_quote_tweet(t)
      [] a = "retweet" -> get_retweet(t)
      [] a = "embedded_tweet" -> get_embedded_tweet(t)

FailsClassification(p) == check_tweet(Heap, p).kind = "raise"

EmbeddingNamed(a) ==
    CASE a = "quote_tweet" -> "The quote-tweet payload appears malformed. Failed with '"
      [] a = "retweet" -> "The retweet payload appears malformed. Failed with '"
      [] a = "embedded_tweet" -> "The embedded tweet payload "

Contains(m, inner) ==
    \E i \in 1..Len(m) : SubSeq(m, i, i + Len(inner) - 1) = inner

IsWrapped(a, inner) ==
    /\ ret.kind = "raise"
    /\ ret.exc = "NotATweetError"
    /\ ret.msg # inner
    /\ ret.msg[1] = EmbeddingNamed(a)
    /\ Contains(ret.msg, inner)

\* C5: a failed nested classification surfaces wrapped, never as it was raised
InnerErrorIsWrapped ==
    \A o \in DOMAIN objs : \A a \in EmbedNames :
        JustRead(o, a) =>
            LET x == Located(objs[o], a)
            IN  /\ (x # None /\ FailsClassification(x[1])) =>
                      IsWrapped(a, check_tweet(Heap, x[1]).msg)
                /\ ret.kind = "raise" =>
                      (x # None /\ FailsClassification(x[1]))

MalformedQuoteRead ==
    \E o \in DOMAIN objs :
        /\ JustRead(o, "quote_tweet")
        /\ ret.kind = "raise"
        /\ dead # {}

(***************************************************************************)
(* C6: every read of poll_options on an activity-streams Tweet raises      *)
(* NotAvailableError, the first and the repeated ones, and none of them    *)
(* leaves a stored value.                                                  *)
(***************************************************************************)
PollOptionsUnavailable ==
    \A o \in DOMAIN objs :
        ~objs[o].original_format =>
            /\ ~Cached(o, "poll_options")
            /\ JustRead(o, "poll_options") =>
                  /\ ret.kind = "raise"
                  /\ ret.exc = "NotAvailableError"

PollOptionsReadTwice ==
    \E o \in DOMAIN objs :
        /\ ~objs[o].original_format
        /\ JustRead(o, "poll_options")
        /\ objs[o].runs["poll_options"] >= 2

(***************************************************************************)
(* C7: an accessor's body runs once per instance at most when it returns:  *)
(* a value a read returned is stored; a stored value never changes; a read *)
(* of a stored accessor returns the stored value, runs no body and         *)
(* constructs nothing, so a stored nested Tweet is the same instance at    *)
(* every read.                                                             *)
(***************************************************************************)
StoredOnReturn ==
    \A o \in DOMAIN objs :
        /\ \A a \in DOMAIN objs[o].lazy : objs[o].runs[a] = 1
        /\ \A a \in AccessorNames :
              (JustRead(o, a) /\ ret.kind = "ok") =>
                  /\ Cached(o, a)
                  /\ objs[o].lazy[a] = ret.val

StoredIsKept ==
    \A o \in DOMAIN objs : \A a \in DOMAIN objs[o].lazy :
        /\ a \in DOMAIN objs'[o].lazy
        /\ objs'[o].lazy[a] = objs[o].lazy[a]
        /\ objs'[o].runs[a] = objs[o].runs[a]
        /\ (nops' = nops + 1 /\ ret'.op = a /\ ret'.obj = o) =>
              /\ ret'.kind = "ok"
              /\ ret'.val = objs[o].lazy[a]
              /\ objs' = objs
              /\ dead' = dead

\* C7: what a read returned is stored, kept, and returned again without a new run
ComputedOnce == []StoredOnReturn /\ [][StoredIsKept]_vars

\* two operations were performed, both reads of quote_tweet on the outer Tweet
QuoteTweetReadTwice ==
    /\ nops = 2
    /\ Len(objs) = 2
    /\ JustRead(1, "quote_tweet")
    /\ ret.val = Ref(2)
    /\ DOMAIN objs[1].lazy = {"quote_tweet"}
    /\ DOMAIN objs[2].lazy = {}
    /\ dead = {}
    /\ \A o \in DOMAIN objs : \A a \in AccessorNames \ {"quote_tweet"} :
           objs[o].runs[a] = 0

(***************************************************************************)
(* C8: the classifier is called once per Tweet, in its construction; the   *)
(* format it returned is the instance's for good, whatever is read; and a  *)
(* construction the classifier fails leaves an instance into which nothing *)
(* of the payload was copied, which is never among the Tweets.             *)
(***************************************************************************)
ClassifiedAtConstruction ==
    /\ \A o \in DOMAIN objs :
          /\ objs[o].checks = 1
          /\ objs[o].original_format \in BOOLEAN
          /\ ~FailsClassification(objs[o].raw)
    /\ \A d \in dead :
          /\ d.raw = EmptyDict
          /\ ~d.classified
          /\ d.checks = 1
    /\ (ret.op = "Tweet" /\ FailsClassification(input)) =>
          (ret.kind = "raise" /\ objs = <<>>)

FormatIsKept ==
    \A o \in DOMAIN objs :
        /\ o \in DOMAIN objs'
        /\ objs'[o].original_format = objs[o].original_format
        /\ objs'[o].checks = objs[o].checks

\* C8: one classification per Tweet, at construction; the format never changes
ClassifiedOnce == []ClassifiedAtConstruction /\ [][FormatIsKept]_vars

NestedBuiltAndRefused ==
    /\ Len(objs) >= 2
    /\ dead # {}
    /\ nops >= 3

(***************************************************************************)
(* C9: on a Tweet whose payload has neither marker, quote_tweet, retweet   *)
(* and embedded_tweet return None, raise nothing and construct no Tweet.   *)
(***************************************************************************)
Unmarked(t) == ~HasRepostMarker(t) /\ ~HasQuoteMarker(t)

UnmarkedReadsNone ==
    \A o \in DOMAIN objs :
        Unmarked(objs[o]) =>
            /\ \A a \in EmbedNames :
                  /\ Cached(o, a) => objs[o].lazy[a] = None
                  /\ JustRead(o, a) => (ret.kind = "ok" /\ ret.val = None)
            /\ o = 1 => (Len(objs) = 1 /\ dead = {})

UnmarkedBuildsNothing ==
    \A o \in DOMAIN objs : \A a \in EmbedNames :
        (Unmarked(objs[o]) /\ nops' = nops + 1 /\ ret'.op = a /\ ret'.obj = o) =>
            (Len(objs') = Len(objs) /\ dead' = dead)

\* C9: without markers the three accessors return None and construct nothing
NoMarkerNoEmbed == []UnmarkedReadsNone /\ [][UnmarkedBuildsNothing]_vars

AllThreeReadUnmarked ==
    /\ Len(objs) = 1
    /\ Unmarked(objs[1])
    /\ EmbedNames \subseteq DOMAIN objs[1].lazy
    /\ ret.op \in EmbedNames

(***************************************************************************)
(* C10: whatever reads and mapping operations were performed, each stored  *)
(* value is what the accessor's rule yields from the payload and the       *)
(* format the Tweet holds now.                                             *)
(***************************************************************************)
Derive(a, h, o) ==
    LET h0 == [h EXCEPT !.objs[o].lazy = <<>>]
    IN  CASE a = "id" -> id(h0, o)
          [] a = "created_at_seconds" -> created_at_seconds(h0, o)
          [] a = "created_at_datetime" -> created_at_datetime(h0, o)
          [] a = "created_at_string" -> created_at_string(h0, o)
          [] a = "tweet_type" -> tweet_type(h0, o)
          [] a = "user_entered_text" -> user_entered_text(h0, o)
          [] a = "poll_options" -> poll_options(h0, o)
          [] a = "quote_tweet" -> quote_tweet(h0, o)
          [] a = "retweet" -> retweet(h0, o)
          [] a = "embedded_tweet" -> embedded_tweet(h0, o)

SameTweet(v, d) ==
    IF d.val = None THEN v = None
    ELSE /\ v # None
         /\ objs[v[1]].raw = d.heap.objs[d.val[1]].raw
         /\ objs[v[1]].original_format = d.heap.objs[d.val[1]].original_format

\* C10: every stored value equals what its rule yields from the current payload
StoredValuesAreCurrent ==
    \A o \in DOMAIN objs : \A a \in DOMAIN objs[o].lazy :
        LET d == Derive(a, Heap, o)
        IN  /\ d.kind = "ok"
            /\ IF a \in EmbedNames THEN SameTweet(objs[o].lazy[a], d)
               ELSE d.val = objs[o].lazy[a]

==========================================================================
